---- MODULE Spec2Model ----
(***************************************************************************)
(* Campaign Analysis Dashboard (src/2.py): the flag-computation pipeline   *)
(* that runs once per uploaded CSV.  The data frame is a column store: a   *)
(* function from column name to the sequence of that column's cells.      *)
(* Dates are calendar days encoded YYYYMMDD, NaT is the missing date, NA   *)
(* is a missing text cell.  A float is a record: an exact rational in       *)
(* lowest terms (kind "num"), or the IEEE results "nan" and "inf" of a     *)
(* division by 0.                                                          *)
(***************************************************************************)
EXTENDS Integers, Sequences, FiniteSets, TLC

VARIABLES uploaded_file, df, pc, col_i, warnings, fill_rate, metrics,
          flag_counts, page_metrics, property_metrics, rendered, exc

vars == <<uploaded_file, df, pc, col_i, warnings, fill_rate, metrics,
          flag_counts, page_metrics, property_metrics, rendered, exc>>

\* ------------------------------------------------------------------ bounds
\* The largest number of data rows of an uploaded table.
MaxRows == 2

\* ------------------------------------------------------- program constants
PAGE_CAPACITY == 1500000
sla_threshold == 90

date_columns == <<"Goal Start Date", "Goal End Date", "Created Time">>

group_keys == {"Page", "Property", "Goal Start Date", "Goal End Date"}

show_columns == {"Lead ID", "Line item ID", "Page", "Property", "Booked Impressions",
                 "Delivered Impressions", "Overbooking", "Underdelivery", "SLA_Breach"}

\* The columns the except handler lists as required.
RequiredColumns == {"Lead ID", "Line item ID", "Page", "Property", "Booked Impressions",
                    "Delivered Impressions", "Goal Start Date", "Goal End Date",
                    "Created Time"}

\* ------------------------------------------------------------ cell values
\* A missing text cell (pandas NaN in an object column).
NA == "<NA>"
\* A missing date (pandas NaT).
NaT == 0
\* A raw date cell is the tuple of the numbers between its separators:
\* "13-01-2025" is <<13, 1, 2025>>; a cell with no such reading is <<>>.
Unparseable == <<>>

\* ------------------------------------------------------------------ floats
RECURSIVE GCD(_, _)
GCD(a, b) == IF b = 0 THEN a ELSE GCD(b, a % b)

\* The number n / d (d > 0), kept in lowest terms so that equal numbers are
\* equal records.
Num(n, d) == [kind |-> "num", num |-> n \div GCD(n, d), den |-> d \div GCD(n, d)]
NaNFloat == [kind |-> "nan", num |-> 0, den |-> 1]
InfFloat == [kind |-> "inf", num |-> 0, den |-> 1]
Unset == [kind |-> "unset", num |-> 0, den |-> 1]

\* n / d of two non-negative numbers, as numpy divides: x/0 is inf, 0/0 is nan.
Divide(n, d) ==
    IF d # 0 THEN Num(n, d)
    ELSE IF n = 0 THEN NaNFloat ELSE InfFloat

\* f * k for a non-negative k (inf and nan stay what they are).
Times(f, k) == IF f.kind = "num" THEN Num(f.num * k, f.den) ELSE f

\* round(2), half to even, of a float: the result counted in hundredths.
Round2(f) ==
    IF f.kind # "num" THEN f
    ELSE LET n == f.num * 100
             q == n \div f.den
             r == n % f.den
             up == (2 * r > f.den) \/ (2 * r = f.den /\ q % 2 = 1)
         IN  Num(IF up THEN q + 1 ELSE q, 100)

\* ------------------------------------------------------------------- dates
DaysInMonth(y, m) ==
    IF m \in {4, 6, 9, 11} THEN 30
    ELSE IF m # 2 THEN 31
    ELSE IF (y % 4 = 0 /\ y % 100 # 0) \/ y % 400 = 0 THEN 29 ELSE 28

ValidDate(y, m, d) == m \in 1..12 /\ d >= 1 /\ d <= DaysInMonth(y, m)

Ymd(y, m, d) == y * 10000 + m * 100 + d

\* pd.to_datetime(cell, dayfirst=True, errors='coerce') of one cell: a leading
\* year reads as year-month-day; otherwise the day is read first, and month
\* first only when the day-first reading is no date; anything else is NaT.
to_datetime(cell) ==
    IF Len(cell) # 3 THEN NaT
    ELSE LET a == cell[1]
             b == cell[2]
             c == cell[3]
         IN  IF a > 31
             THEN (IF ValidDate(a, b, c) THEN Ymd(a, b, c) ELSE NaT)
             ELSE IF ValidDate(c, b, a) THEN Ymd(c, b, a)
             ELSE IF ValidDate(c, a, b) THEN Ymd(c, a, b)
             ELSE NaT

isna(v) == v = NaT

\* Variant: the dates compared as plain numbers, NaT among them.
NaiveDateGT(a, b) == a > b

\* a > b on two datetime cells: any comparison with NaT is False.
DateGT(a, b) == ~isna(a) /\ ~isna(b) /\ a > b

\* -------------------------------------------------------------- data frame
\* len(df)
NRows(d) == Len(d[CHOOSE c \in DOMAIN d : TRUE])

Indices(d) == 1..NRows(d)

RECURSIVE SumIdx(_, _)
\* The sum of the cells of column s at the rows of S.
SumIdx(s, S) ==
    IF S = {} THEN 0
    ELSE LET i == CHOOSE j \in S : TRUE
         IN  s[i] + SumIdx(s, S \ {i})

\* Series.sum()
SeriesSum(s) == SumIdx(s, DOMAIN s)

\* sum(series) of a boolean column: the number of True cells.
CountTrue(s) == Cardinality({i \in DOMAIN s : s[i]})

WithColumn(d, name, s) == [c \in DOMAIN d \cup {name} |-> IF c = name THEN s ELSE d[c]]

\* ------------------------------------------------------------ the uploads
Row(lead, item, page, prop, booked, delivered, start, end, created) ==
    [c \in RequiredColumns |->
        CASE c = "Lead ID" -> lead
          [] c = "Line item ID" -> item
          [] c = "Page" -> page
          [] c = "Property" -> prop
          [] c = "Booked Impressions" -> booked
          [] c = "Delivered Impressions" -> delivered
          [] c = "Goal Start Date" -> start
          [] c = "Goal End Date" -> end
          [] OTHER -> created]

\* The rows of the sample table the upload page shows (lines 281-291).
SampleRows ==
    {Row("L001", "LI001", "Homepage", "Website A", 500000, 450000,
         <<13, 1, 2025>>, <<31, 1, 2025>>, <<25, 12, 2024>>),
     Row("L002", "LI002", "Article", "Website B", 700000, 600000,
         <<15, 1, 2025>>, <<15, 2, 2025>>, <<14, 1, 2025>>),
     Row("L003", "LI003", "Homepage", "Website A", 400000, 350000,
         <<1, 2, 2025>>, <<28, 2, 2025>>, <<30, 1, 2025>>)}

\* Rows that differ in placement and volume, dates in order.
VolumeRows ==
    {Row("L001", "LI001", p, "Website A", b, d,
         <<13, 1, 2025>>, <<31, 1, 2025>>, <<25, 12, 2024>>) :
        p \in {"Homepage", "Article"}, b \in {0, 800000, 1600000},
        d \in {0, 750000, 800000}}

\* Rows that differ in their dates: day-first, month-first, ISO, unparseable.
DateRows ==
    {Row("L001", "LI001", "Homepage", "Website A", 800000, d, s, e, c) :
        d \in {0, 800000},
        s \in {<<13, 1, 2025>>, Unparseable},
        e \in {<<2025, 1, 31>>, Unparseable},
        c \in {<<25, 12, 2024>>, <<1, 20, 2025>>, Unparseable}}

\* Rows that differ in their dimensions, with missing cells.
DimensionRows ==
    {Row(l, "LI001", p, q, v[1], v[2],
         <<13, 1, 2025>>, <<31, 1, 2025>>, <<25, 12, 2024>>) :
        l \in {"L001", NA}, p \in {"Homepage", "Article", NA},
        q \in {"Website A", "Website B", NA},
        v \in {<<0, 0>>, <<0, 750000>>, <<800000, 750000>>}}

\* The uploads: the sample rows with any one column left out, and the three
\* families of complete tables.
Uploads ==
    {[rows |-> SampleRows, absent |-> {{}} \cup {{c} : c \in RequiredColumns}],
     [rows |-> VolumeRows, absent |-> {{}}],
     [rows |-> DateRows, absent |-> {{}}],
     [rows |-> DimensionRows, absent |-> {{}}]}

\* pd.read_csv of a file with the columns cols and the rows rows.
read_csv(cols, rows) == [c \in cols |-> [i \in DOMAIN rows |-> rows[i][c]]]

Init ==
    /\ \E n \in 1..MaxRows : \E up \in Uploads :
         \E rows \in [1..n -> up.rows] : \E absent \in up.absent :
            uploaded_file = read_csv(RequiredColumns \ absent, rows)
    /\ df = uploaded_file
    /\ pc = "dates"
    /\ col_i = 1
    /\ warnings = <<>>
    /\ fill_rate = Unset
    /\ metrics = <<>>
    /\ flag_counts = <<>>
    /\ page_metrics = <<>>
    /\ property_metrics = <<>>
    /\ rendered = <<>>
    /\ exc = "none"

\* Variant: one warning per missing cell.
RECURSIVE ParseWarningsPerRow(_, _)
ParseWarningsPerRow(col, parsed) ==
    IF parsed = <<>> THEN <<>>
    ELSE (IF isna(Head(parsed)) THEN <<col>> ELSE <<>>)
         \o ParseWarningsPerRow(col, Tail(parsed))

\* Lines 34-35: the warnings of one parsed column: one, naming the column, when
\* any of its cells is missing.
ParseWarnings(col, parsed) ==
    IF \E i \in DOMAIN parsed : isna(parsed[i]) THEN <<col>> ELSE <<>>

\* Lines 27-38: one iteration of the loop over date_columns.
ParseDateColumn ==
    /\ pc = "dates"
    /\ col_i <= Len(date_columns)
    /\ LET col == date_columns[col_i]
       IN  IF col \in DOMAIN df
           THEN LET parsed == [i \in DOMAIN df[col] |-> to_datetime(df[col][i])]
                IN  /\ df' = WithColumn(df, col, parsed)
                    /\ warnings' = warnings \o ParseWarnings(col, parsed)
           ELSE UNCHANGED <<df, warnings>>
    /\ col_i' = col_i + 1
    /\ pc' = IF col_i = Len(date_columns) THEN "overbooking" ELSE "dates"
    /\ UNCHANGED <<uploaded_file, fill_rate, metrics, flag_counts, page_metrics,
                   property_metrics, rendered, exc>>

\* ------------------------------------------------------ overbooking flag
\* Variant: the flag set row by row from the row's own booked impressions.
RowOverbookingColumn(d) ==
    [i \in Indices(d) |->
        "Booked Impressions" \in DOMAIN d /\ d["Booked Impressions"][i] > PAGE_CAPACITY]

\* Line 41: df['Overbooking'] = False
OverbookingColumn(d) == [i \in Indices(d) |-> FALSE]

\* The cell of row i in each of the columns keys.
KeyOf(d, keys, i) == [c \in keys |-> d[c][i]]

\* A group key with a missing cell: groupby (dropna=True) leaves the row out.
KeyHasNA(k) ==
    \E c \in DOMAIN k :
        IF c \in {"Goal Start Date", "Goal End Date"} THEN isna(k[c]) ELSE k[c] = NA

RowsOfKey(d, keys, k) == {i \in Indices(d) : KeyOf(d, keys, i) = k}

GroupKeys(d, keys) == {KeyOf(d, keys, i) : i \in Indices(d)} \ 
                      {k \in {KeyOf(d, keys, i) : i \in Indices(d)} : KeyHasNA(k)}

\* Lines 42-45: one record per group, with the group's booked sum and its
\* Overbooking verdict.
Grouped(d) ==
    {[c \in group_keys \cup {"Booked Impressions", "Overbooking"} |->
        IF c \in group_keys THEN k[c]
        ELSE LET total == SumIdx(d["Booked Impressions"], RowsOfKey(d, group_keys, k))
             IN  IF c = "Booked Impressions" THEN total ELSE total > PAGE_CAPACITY] :
     k \in GroupKeys(d, group_keys)}

RECURSIVE SetToSeq(_)
SetToSeq(S) ==
    IF S = {} THEN <<>>
    ELSE LET x == CHOOSE y \in S : TRUE
         IN  <<x>> \o SetToSeq(S \ {x})

\* The records of right whose key cells equal those of row i of left.
Matches(left, right, on, i) == {r \in right : \A c \in on : r[c] = left[c][i]}

RECURSIVE InnerJoin(_, _, _, _)
\* Variant join (how='inner'): only the (left row, right record) pairs that
\* match, in left order.
InnerJoin(left, right, on, i) ==
    IF i > NRows(left) THEN <<>>
    ELSE [k \in 1..Cardinality(Matches(left, right, on, i)) |->
            [l |-> i, matched |-> TRUE,
             r |-> SetToSeq(Matches(left, right, on, i))[k]]]
         \o InnerJoin(left, right, on, i + 1)

RECURSIVE LeftJoin(_, _, _, _)
\* how='left': every left row in order, once per matching right record, and
\* once with no right record when none matches.
LeftJoin(left, right, on, i) ==
    IF i > NRows(left) THEN <<>>
    ELSE (IF Matches(left, right, on, i) = {}
          THEN <<[l |-> i, matched |-> FALSE, r |-> <<>>]>>
          ELSE [k \in 1..Cardinality(Matches(left, right, on, i)) |->
                  [l |-> i, matched |-> TRUE,
                   r |-> SetToSeq(Matches(left, right, on, i))[k]]])
         \o LeftJoin(left, right, on, i + 1)

\* The cell of a right column in a row no right record matched.
NaNCell == "NaN"

\* The frame of the joined pairs: the left columns, then the right columns that
\* are no key; a name both sides have gets its side's suffix.
JoinedFrame(left, rcols, on, suffixes, pairs) ==
    LET overlap == (DOMAIN left \cap rcols) \ on
        LName(c) == IF c \in overlap THEN c \o suffixes[1] ELSE c
        RName(c) == IF c \in overlap THEN c \o suffixes[2] ELSE c
        lnames == {LName(c) : c \in DOMAIN left}
        rnames == {RName(c) : c \in rcols \ on}
    IN  [name \in lnames \cup rnames |->
            IF name \in lnames
            THEN LET c == CHOOSE x \in DOMAIN left : LName(x) = name
                 IN  [k \in DOMAIN pairs |-> left[c][pairs[k].l]]
            ELSE LET c == CHOOSE x \in rcols \ on : RName(x) = name
                 IN  [k \in DOMAIN pairs |->
                        IF pairs[k].matched THEN pairs[k].r[c] ELSE NaNCell]]

\* Variant: how='inner'.
InnerMerge(left, right, rcols, on, suffixes) ==
    JoinedFrame(left, rcols, on, suffixes, InnerJoin(left, right, on, 1))

\* Lines 48-49: df.merge(right[rcols], on=on, how='left', suffixes=suffixes)
Merge(left, right, rcols, on, suffixes) ==
    JoinedFrame(left, rcols, on, suffixes, LeftJoin(left, right, on, 1))

\* Lines 40-49.
AddOverbookingFlag ==
    /\ pc = "overbooking"
    /\ IF group_keys \cup {"Booked Impressions"} \subseteq DOMAIN df
       THEN /\ df' = Merge(WithColumn(df, "Overbooking", OverbookingColumn(df)),
                           Grouped(df), group_keys \cup {"Overbooking"},
                           group_keys, <<"", "_grouped">>)
            /\ pc' = "underdelivery"
            /\ exc' = exc
       ELSE /\ pc' = "except"
            /\ exc' = "KeyError"
            /\ df' = WithColumn(df, "Overbooking", OverbookingColumn(df))
    /\ UNCHANGED <<uploaded_file, col_i, warnings, fill_rate, metrics, flag_counts,
                   page_metrics, property_metrics, rendered>>

\* ------------------------------------------------------- row-level flags
\* Variant: delivered <= booked.
UnderdeliveryOrEqual(d) ==
    [i \in Indices(d) |-> d["Delivered Impressions"][i] <= d["Booked Impressions"][i]]

\* Line 52: delivered < booked, row by row.
Underdelivery(d) ==
    [i \in Indices(d) |-> d["Delivered Impressions"][i] < d["Booked Impressions"][i]]

\* delivered < (sla_threshold/100) * booked.  The float product is exact when
\* 90% of booked is a whole number and is otherwise at least 0.1 away from any
\* whole number, so the comparison is that of the exact values.
UnderThreshold(delivered, booked) == 100 * delivered < sla_threshold * booked

\* Lines 55-58.
SLA_Breach(d) ==
    [i \in Indices(d) |->
        \/ UnderThreshold(d["Delivered Impressions"][i], d["Booked Impressions"][i])
        \/ DateGT(d["Created Time"][i], d["Goal Start Date"][i])]

\* Lines 51-52.
AddUnderdeliveryFlag ==
    /\ pc = "underdelivery"
    /\ IF {"Delivered Impressions", "Booked Impressions"} \subseteq DOMAIN df
       THEN /\ df' = WithColumn(df, "Underdelivery", Underdelivery(df))
            /\ pc' = "sla"
            /\ exc' = exc
       ELSE /\ pc' = "except"
            /\ exc' = "KeyError"
            /\ df' = df
    /\ UNCHANGED <<uploaded_file, col_i, warnings, fill_rate, metrics, flag_counts,
                   page_metrics, property_metrics, rendered>>

\* Lines 54-58.
AddSLABreachFlag ==
    /\ pc = "sla"
    /\ IF {"Delivered Impressions", "Booked Impressions", "Created Time",
           "Goal Start Date"} \subseteq DOMAIN df
       THEN /\ df' = WithColumn(df, "SLA_Breach", SLA_Breach(df))
            /\ pc' = "fill_rate"
            /\ exc' = exc
       ELSE /\ pc' = "except"
            /\ exc' = "KeyError"
            /\ df' = df
    /\ UNCHANGED <<uploaded_file, col_i, warnings, fill_rate, metrics, flag_counts,
                   page_metrics, property_metrics, rendered>>

\* ------------------------------------------------------------- fill rate
\* Variant: the division without its guard.
UnguardedFillRate(total_delivered, total_booked) ==
    Times(Divide(total_delivered, total_booked), 100)

\* Line 63.
FillRate(total_delivered, total_booked) ==
    IF total_booked > 0
    THEN Times(Divide(total_delivered, total_booked), 100)
    ELSE Num(0, 1)

\* Lines 60-68.
OverallFillRate ==
    /\ pc = "fill_rate"
    /\ fill_rate' = FillRate(SeriesSum(df["Delivered Impressions"]),
                             SeriesSum(df["Booked Impressions"]))
    /\ rendered' = rendered \o <<"header: Overall Campaign Performance",
                                 "metric: Overall Fill Rate">>
    /\ pc' = "metrics"
    /\ UNCHANGED <<uploaded_file, df, col_i, warnings, metrics, flag_counts,
                   page_metrics, property_metrics, exc>>

\* Lines 70-81.
DisplayMetrics ==
    /\ pc = "metrics"
    /\ metrics' = [total |-> NRows(df),
                   overbooking |-> CountTrue(df["Overbooking"]),
                   underdelivery |-> CountTrue(df["Underdelivery"]),
                   sla_breach |-> CountTrue(df["SLA_Breach"])]
    /\ rendered' = rendered \o <<"header: Campaign Performance Metrics",
                                 "metric: Total Campaigns",
                                 "metric: Overbooking Issues",
                                 "metric: Underdelivery Issues",
                                 "metric: SLA Breaches">>
    /\ pc' = "table"
    /\ UNCHANGED <<uploaded_file, df, col_i, warnings, fill_rate, flag_counts,
                   page_metrics, property_metrics, exc>>

\* Lines 83-100: the header is out before df[show_columns] is taken.
DisplayData ==
    /\ pc = "table"
    /\ IF show_columns \subseteq DOMAIN df
       THEN /\ rendered' = rendered \o <<"header: Campaign Data",
                                         "dataframe: Campaign Data",
                                         "download: campaign_analysis_output.csv">>
            /\ pc' = "distribution"
            /\ exc' = exc
       ELSE /\ rendered' = Append(rendered, "header: Campaign Data")
            /\ pc' = "except"
            /\ exc' = "KeyError"
    /\ UNCHANGED <<uploaded_file, df, col_i, warnings, fill_rate, metrics,
                   flag_counts, page_metrics, property_metrics>>

\* Lines 113-118 and 133-140: the True and False counts of a flag, and the
\* share of True among all rows, in percent.
FlagCount(d, flag) ==
    [true |-> CountTrue(d[flag]),
     false |-> NRows(d) - CountTrue(d[flag]),
     percentage |-> Times(Divide(CountTrue(d[flag]), NRows(d)), 100)]

\* Lines 102-144.
IssueDistribution ==
    /\ pc = "distribution"
    /\ flag_counts' = [f \in {"Overbooking", "Underdelivery", "SLA_Breach"} |->
                          FlagCount(df, f)]
    /\ rendered' = rendered \o <<"header: True/False Analysis",
                                 "chart: Issue Distribution (True/False)",
                                 "chart: Distribution of Issues (% of Total Campaigns)">>
    /\ pc' = "page"
    /\ UNCHANGED <<uploaded_file, df, col_i, warnings, fill_rate, metrics,
                   page_metrics, property_metrics, exc>>

\* ----------------------------------------------------------------- rollups
\* 'count': the cells of the group that are not missing.
CountNotNA(s, S) == Cardinality({i \in S : s[i] # NA})

\* 'mean' of a boolean column over the rows S, then * 100 and round(2).
RatePercent(s, S) ==
    Round2(Times(Divide(Cardinality({i \in S : s[i]}), Cardinality(S)), 100))

\* Lines 161 and 221: (delivered / booked * 100).round(2) of one group.
GroupFillRate(delivered, booked) == Round2(Times(Divide(delivered, booked), 100))

\* Lines 151-173 and 211-233: df.groupby(dim).agg(...), one summary row per
\* value of dim that is not missing, here keyed by that value.
Rollup(d, dim) ==
    [g \in {d[dim][i] : i \in Indices(d)} \ {NA} |->
        LET S == {i \in Indices(d) : d[dim][i] = g}
            booked == SumIdx(d["Booked Impressions"], S)
            delivered == SumIdx(d["Delivered Impressions"], S)
        IN  [booked |-> booked,
             delivered |-> delivered,
             campaign_count |-> CountNotNA(d["Lead ID"], S),
             overbooking_rate |-> RatePercent(d["Overbooking"], S),
             underdelivery_rate |-> RatePercent(d["Underdelivery"], S),
             sla_breach_rate |-> RatePercent(d["SLA_Breach"], S),
             fill_rate |-> GroupFillRate(delivered, booked)]]

\* Lines 146-204.
PageAnalysis ==
    /\ pc = "page"
    /\ page_metrics' = Rollup(df, "Page")
    /\ rendered' = rendered \o <<"subheader: Page-wise Analysis",
                                 "dataframe: page_metrics",
                                 "chart: Fill Rate by Page (%)",
                                 "chart: Issue Rates by Page (%)">>
    /\ pc' = "property"
    /\ UNCHANGED <<uploaded_file, df, col_i, warnings, fill_rate, metrics,
                   flag_counts, property_metrics, exc>>

\* Lines 206-264.
PropertyAnalysis ==
    /\ pc = "property"
    /\ property_metrics' = Rollup(df, "Property")
    /\ rendered' = rendered \o <<"subheader: Property-wise Analysis",
                                 "dataframe: property_metrics",
                                 "chart: Fill Rate by Property (%)",
                                 "chart: Issue Rates by Property (%)">>
    /\ pc' = "done"
    /\ UNCHANGED <<uploaded_file, df, col_i, warnings, fill_rate, metrics,
                   flag_counts, page_metrics, exc>>

\* Lines 266-274: the except handler.
HandleException ==
    /\ pc = "except"
    /\ rendered' = rendered \o <<"error: Error processing data",
                                 "write: required columns",
                                 "error: Date format issue detected",
                                 "write: accepted date formats">>
    /\ pc' = "done"
    /\ UNCHANGED <<uploaded_file, df, col_i, warnings, fill_rate, metrics,
                   flag_counts, page_metrics, property_metrics, exc>>

Next ==
    \/ ParseDateColumn
    \/ AddOverbookingFlag
    \/ AddUnderdeliveryFlag
    \/ AddSLABreachFlag
    \/ OverallFillRate
    \/ DisplayMetrics
    \/ DisplayData
    \/ IssueDistribution
    \/ PageAnalysis
    \/ PropertyAnalysis
    \/ HandleException

Spec == Init /\ [][Next]_vars

\* ------------------------------------------------------------------ claims
FlagColumns == {"Overbooking", "Underdelivery", "SLA_Breach"}

\* The three flags have been computed.
Flagged == FlagColumns \subseteq DOMAIN df

\* The upload has every required column.
CompleteUpload == RequiredColumns \subseteq DOMAIN uploaded_file

\* The rows of the table that share row i's (Page, Property, Goal Start Date,
\* Goal End Date).
SameGroup(i) == {j \in Indices(df) : \A c \in group_keys : df[c][j] = df[c][i]}

\* C1: after flag computation, a row's Overbooking flag is true exactly when
\* the booked impressions of the rows of its group add up to more than the
\* capacity.
C1_OverbookingIffGroupOverCapacity ==
    Flagged =>
        \A i \in Indices(df) :
            df["Overbooking"][i] <=>
                SumIdx(df["Booked Impressions"], SameGroup(i)) > 1500000

\* C2: a row breaches the SLA exactly when it delivered less than 90% of its
\* booking or was created after its goal start; a lateness comparison with a
\* missing date counts as false, so a row whose Created Time or Goal Start
\* Date cell could not be read breaches only through the delivery clause.
C2_SLABreachIffUnderThresholdOrLate ==
    Flagged =>
        \A i \in Indices(df) :
            LET short == 10 * df["Delivered Impressions"][i]
                             < 9 * df["Booked Impressions"][i]
                created == df["Created Time"][i]
                start == df["Goal Start Date"][i]
                missing == \/ uploaded_file["Created Time"][i] = Unparseable
                           \/ uploaded_file["Goal Start Date"][i] = Unparseable
            IN  /\ df["SLA_Breach"][i] <=>
                      (short \/ (created # NaT /\ start # NaT /\ created > start))
                /\ missing => (df["SLA_Breach"][i] <=> short)

\* A row with an unreadable goal start, a readable creation date and enough
\* delivery carries no breach.
C2_Witness ==
    /\ Flagged
    /\ \E i \in Indices(df) :
          /\ uploaded_file["Goal Start Date"][i] = Unparseable
          /\ uploaded_file["Created Time"][i] # Unparseable
          /\ ~df["SLA_Breach"][i]

\* C3: a row is underdelivered exactly when its own delivered impressions are
\* below its own booked impressions, whatever the other rows hold; a row that
\* booked nothing is never underdelivered.
C3_UnderdeliveryIffDeliveredBelowBooked ==
    Flagged =>
        \A i \in Indices(df) :
            /\ df["Underdelivery"][i] <=>
                  uploaded_file["Delivered Impressions"][i]
                      < uploaded_file["Booked Impressions"][i]
            /\ uploaded_file["Booked Impressions"][i] = 0 => ~df["Underdelivery"][i]

\* A table with a row that booked and delivered nothing beside an
\* underdelivered row.
C3_Witness ==
    /\ Flagged
    /\ \E i, j \in Indices(df) :
          /\ df["Booked Impressions"][i] = 0
          /\ df["Delivered Impressions"][i] = 0
          /\ ~df["Underdelivery"][i]
          /\ df["Underdelivery"][j]

\* A widget that shows a result of the analysis.
IsResult(w) ==
    w \in {"metric: Overall Fill Rate", "metric: Total Campaigns",
           "metric: Overbooking Issues", "metric: Underdelivery Issues",
           "metric: SLA Breaches", "dataframe: Campaign Data",
           "download: campaign_analysis_output.csv",
           "chart: Issue Distribution (True/False)",
           "chart: Distribution of Issues (% of Total Campaigns)",
           "dataframe: page_metrics", "chart: Fill Rate by Page (%)",
           "chart: Issue Rates by Page (%)", "dataframe: property_metrics",
           "chart: Fill Rate by Property (%)", "chart: Issue Rates by Property (%)"}

Shown(w) == \E k \in DOMAIN rendered : rendered[k] = w

\* C4: when a required column is absent, no result is rendered at any point
\* of the run, and the run ends with the error and the list of the expected
\* columns.
C4_SchemaErrorShowsNoResult ==
    ~CompleteUpload =>
        /\ \A k \in DOMAIN rendered : ~IsResult(rendered[k])
        /\ pc = "done" =>
              Shown("error: Error processing data") /\ Shown("write: required columns")

\* The number of warnings that name column c.
WarningCount(c) == Cardinality({k \in DOMAIN warnings : warnings[k] = c})

DateColumnSet == {date_columns[k] : k \in DOMAIN date_columns}

\* C5: an unparseable date cell never aborts the run: the cell becomes a
\* missing date, its column gets exactly one warning however many of its cells
\* are unparseable, the readable cells of every date column are dates, and the
\* run ends with the three flags computed for every row.
C5_UnparseableDateIsWarnedOnce ==
    (CompleteUpload /\ \E c \in DateColumnSet, i \in Indices(uploaded_file) :
                           uploaded_file[c][i] = Unparseable) =>
        /\ exc = "none"
        /\ pc # "except"
        /\ pc # "dates" =>
              \A c \in DateColumnSet :
                  /\ WarningCount(c) =
                        IF \E i \in Indices(uploaded_file) :
                               uploaded_file[c][i] = Unparseable
                        THEN 1 ELSE 0
                  /\ \A i \in Indices(uploaded_file) :
                        (df[c][i] = NaT) <=> (uploaded_file[c][i] = Unparseable)
        /\ pc = "done" =>
              /\ Flagged
              /\ \A f \in FlagColumns :
                    DOMAIN df[f] = Indices(uploaded_file)
                    /\ \A i \in DOMAIN df[f] : df[f][i] \in BOOLEAN

\* A finished run over a table whose Goal Start Date cells are unparseable in
\* two rows while a Created Time cell is readable.
C5_Witness ==
    /\ pc = "done"
    /\ exc = "none"
    /\ \E i, j \in Indices(uploaded_file) :
          /\ i # j
          /\ uploaded_file["Goal Start Date"][i] = Unparseable
          /\ uploaded_file["Goal Start Date"][j] = Unparseable
          /\ uploaded_file["Created Time"][j] # Unparseable
    /\ WarningCount("Goal Start Date") = 1

\* C6: the overall fill rate is 100 * sum(delivered) / sum(booked) over all
\* rows, and 0 when the booked impressions add up to 0.
C6_FillRateIsPercentOfBooked ==
    fill_rate # Unset =>
        LET booked == SeriesSum(uploaded_file["Booked Impressions"])
            delivered == SeriesSum(uploaded_file["Delivered Impressions"])
            g == GCD(booked, delivered)
        IN  /\ fill_rate.kind = "num"
            /\ IF booked = 0
               THEN fill_rate.num = 0
               ELSE fill_rate.num * (booked \div g)
                        = 100 * (delivered \div g) * fill_rate.den

\* Nothing was booked, something was delivered, and the fill rate is 0.
C6_Witness ==
    /\ fill_rate # Unset
    /\ SeriesSum(uploaded_file["Booked Impressions"]) = 0
    /\ SeriesSum(uploaded_file["Delivered Impressions"]) > 0
    /\ fill_rate.num = 0

\* C7: after flag computation, two rows that share (Page, Property, Goal Start
\* Date, Goal End Date) carry the same Overbooking flag.
C7_SameGroupSameOverbooking ==
    Flagged =>
        \A i, j \in Indices(df) :
            j \in SameGroup(i) => df["Overbooking"][i] = df["Overbooking"][j]

\* Two rows of one group, one of which alone is booked over the capacity.
C7_Witness ==
    /\ Flagged
    /\ \E i, j \in Indices(df) :
          /\ i # j
          /\ j \in SameGroup(i)
          /\ df["Booked Impressions"][i] > PAGE_CAPACITY
          /\ df["Booked Impressions"][j] <= PAGE_CAPACITY

RECURSIVE CampaignCountSum(_, _)
\* The Campaign Count values of the summary rows G of a rollup, added up.
CampaignCountSum(rollup, G) ==
    IF G = {} THEN 0
    ELSE LET g == CHOOSE x \in G : TRUE
         IN  rollup[g].campaign_count + CampaignCountSum(rollup, G \ {g})

\* C8: in the rollup by Page and in the rollup by Property, the Campaign Count
\* values add up to the number of rows of the flagged table.
C8_CampaignCountsAddUpToRows ==
    (pc = "done" /\ exc = "none") =>
        /\ CampaignCountSum(page_metrics, DOMAIN page_metrics) = NRows(df)
        /\ CampaignCountSum(property_metrics, DOMAIN property_metrics) = NRows(df)

\* The Fill Rate of every group of a rollup is 0 when the group booked nothing
\* and delivered / booked * 100 (to the 2 decimals shown) otherwise.
GuardedFillRates(rollup) ==
    \A g \in DOMAIN rollup :
        IF rollup[g].booked = 0
        THEN rollup[g].fill_rate = Num(0, 1)
        ELSE rollup[g].fill_rate = Round2(Num(100 * rollup[g].delivered, rollup[g].booked))

\* C9: the rollups by Page and by Property apply the zero guard of the overall
\* fill rate: a group that booked nothing has Fill Rate 0, every other group
\* delivered_sum / booked_sum * 100.
C9_RollupFillRateIsGuarded ==
    (pc = "done" /\ exc = "none") =>
        GuardedFillRates(page_metrics) /\ GuardedFillRates(property_metrics)

\* C10: the merge of the per-group result neither adds nor drops rows: the
\* table has one row per input row, in the input order, with Lead ID, Line
\* item ID, Page, Property, Booked Impressions and Delivered Impressions as
\* uploaded, also for rows whose goal dates are missing.
C10_MergeKeepsRows ==
    "Overbooking_grouped" \in DOMAIN df =>
        /\ NRows(df) = NRows(uploaded_file)
        /\ \A c \in {"Lead ID", "Line item ID", "Page", "Property",
                     "Booked Impressions", "Delivered Impressions"}
                        \cap DOMAIN uploaded_file :
              c \in DOMAIN df /\ df[c] = uploaded_file[c]

\* A merged table with a row whose Goal Start Date is missing (it belongs to
\* no computed group) beside a row that belongs to one.
C10_Witness ==
    /\ "Overbooking_grouped" \in DOMAIN df
    /\ \E i, j \in Indices(df) :
          /\ df["Goal Start Date"][i] = NaT
          /\ df["Overbooking_grouped"][i] = NaNCell
          /\ df["Goal Start Date"][j] # NaT
          /\ df["Goal End Date"][j] # NaT
====
